---- MODULE Spec2Model ----
(***************************************************************************)
(* scripts/10_add_validator.ts: a one-shot CLI run that parses its flags,  *)
(* creates an LCD client, loads a wallet, builds one MsgExecuteContract    *)
(* carrying { add_validator: { validator } } for the hub contract, submits *)
(* it with sendTxWithConfirm and prints the transaction hash.              *)
(*                                                                         *)
(* One behaviour of the model is one run of the script.  The command line  *)
(* is the input, drawn in Init; the outcomes of the calls into ./helpers   *)
(* (return value or throw / rejection) are chosen by the environment.      *)
(***************************************************************************)
EXTENDS Naturals, Sequences, FiniteSets, TLC

\* Number of distinct string values a flag, an account address or a
\* transaction hash can take in the model.
NumStr == 2

\* The string values of the model: "s1", "s2", ...
Str == {"s" \o ToString(i) : i \in 1..NumStr}

\* JavaScript's undefined: the value of a property that is not there and of
\* a binding that has not been assigned yet.
undefined == "<undefined>"

\* The flags the script declares to yargs.
Flags == {"network", "key", "key-dir", "hub-address", "validator-address"}

\* keystore.DEFAULT_KEY_DIR, the default of --key-dir.
DEFAULT_KEY_DIR == "<keystore.DEFAULT_KEY_DIR>"

NoDefault == "<no default>"

\* Mutant of options: --hub-address is no longer demanded.
options_hubOptional ==
  [f \in Flags |->
     IF f = "key-dir"
       THEN [demandOption |-> FALSE, default |-> DEFAULT_KEY_DIR]
       ELSE [demandOption |-> (f # "hub-address"), default |-> NoDefault]]

\* The object given to yargs' .options(): every flag is a string; all are
\* demanded but "key-dir", which has a default.
options ==
  [f \in Flags |->
     IF f = "key-dir"
       THEN [demandOption |-> FALSE, default |-> DEFAULT_KEY_DIR]
       ELSE [demandOption |-> TRUE, default |-> NoDefault]]

\* The demanded flags that the command line does not supply.
MissingRequired(cl) ==
  {f \in Flags : options[f].demandOption /\ f \notin DOMAIN cl}

\* Mutant of parseSync: the default of "key-dir" is not applied.
parseSync_noDefault(cl) == cl

\* The argv object yargs produces from a valid command line: each supplied
\* flag with its value, each absent flag that has a default with the default.
parseSync(cl) ==
  [f \in {g \in Flags : g \in DOMAIN cl \/ options[g].default # NoDefault} |->
     IF f \in DOMAIN cl THEN cl[f] ELSE options[f].default]

\* Property access o[k]: undefined when o has no property k.
Get(o, k) == IF k \in DOMAIN o THEN o[k] ELSE undefined

\* The object with no properties.
EmptyObject == [f \in {} |-> undefined]

\* Every command line the run can be started with: any subset of the flags,
\* each with a string value.
CommandLines == UNION {[S -> Str] : S \in SUBSET Flags}

VARIABLES
  cmdline,      \* process.argv: the flags supplied, with their values
  argv,         \* const argv (the parsed options)
  pc,           \* position of the run
  terra,        \* const terra
  worker,       \* const worker
  msgs,         \* the message list built for sendTxWithConfirm
  txhash,       \* const { txhash }
  stdout,       \* the lines console.log has written
  lcdCalls,     \* arguments of each createLCDClient call
  walletCalls,  \* arguments of each createWallet call
  sendCalls,    \* arguments of each sendTxWithConfirm call
  sendResult,   \* what sendTxWithConfirm resolved with
  thrown,       \* which call threw or rejected, "none" if none did
  trace         \* the steps completed so far, in order

vars == <<cmdline, argv, pc, terra, worker, msgs, txhash, stdout, lcdCalls,
          walletCalls, sendCalls, sendResult, thrown, trace>>

NoClient == [network |-> undefined]
NoWallet == [lcd |-> NoClient, key |-> [accAddress |-> undefined]]
NoResult == [txhash |-> undefined]

Init ==
  /\ cmdline \in CommandLines
  /\ argv = EmptyObject
  /\ pc = "parseSync"
  /\ terra = NoClient
  /\ worker = NoWallet
  /\ msgs = <<>>
  /\ txhash = undefined
  /\ stdout = <<>>
  /\ lcdCalls = <<>>
  /\ walletCalls = <<>>
  /\ sendCalls = <<>>
  /\ sendResult = NoResult
  /\ thrown = "none"
  /\ trace = <<>>

\* yargs(process.argv).options({...}).parseSync() with every demanded flag
\* present.
ParseArgs ==
  /\ pc = "parseSync"
  /\ MissingRequired(cmdline) = {}
  /\ argv' = parseSync(cmdline)
  /\ pc' = "createLCDClient"
  /\ trace' = Append(trace, "parseSync")
  /\ UNCHANGED <<cmdline, terra, worker, msgs, txhash, stdout, lcdCalls,
                 walletCalls, sendCalls, sendResult, thrown>>

\* parseSync() with a demanded flag missing: yargs reports the missing
\* argument and exits the process; the async function is never entered.
ParseFail ==
  /\ pc = "parseSync"
  /\ MissingRequired(cmdline) # {}
  /\ pc' = "exit"
  /\ thrown' = "parseSync"
  /\ UNCHANGED <<cmdline, argv, terra, worker, msgs, txhash, stdout, lcdCalls,
                 walletCalls, sendCalls, sendResult, trace>>

\* What createLCDClient(network) of ./helpers returns: a client for that
\* network.
createLCDClient(network) == [network |-> network]

\* The wallets createWallet(terra, keyName, keyDir) of ./helpers can resolve
\* with: a wallet on that client whose account address is the one of the key
\* stored under that name.
createWalletResults(lcd, keyName, keyDir) ==
  {[lcd |-> lcd, key |-> [accAddress |-> a]] : a \in Str}

\* The results sendTxWithConfirm(signer, msgs) of ./helpers can resolve with.
sendTxWithConfirmResults(signer, msgList) == {[txhash |-> h] : h \in Str}

\* const terra = createLCDClient(argv["network"]), the call returning.
CreateLCDClient ==
  /\ pc = "createLCDClient"
  /\ lcdCalls' = Append(lcdCalls, [network |-> Get(argv, "network")])
  /\ terra' = createLCDClient(Get(argv, "network"))
  /\ pc' = "createWallet"
  /\ trace' = Append(trace, "createLCDClient")
  /\ UNCHANGED <<cmdline, argv, worker, msgs, txhash, stdout, walletCalls,
                 sendCalls, sendResult, thrown>>

\* createLCDClient throwing: the async function's promise is rejected and
\* nobody handles it.
CreateLCDClientThrow ==
  /\ pc = "createLCDClient"
  /\ lcdCalls' = Append(lcdCalls, [network |-> Get(argv, "network")])
  /\ thrown' = "createLCDClient"
  /\ pc' = "unhandledRejection"
  /\ UNCHANGED <<cmdline, argv, terra, worker, msgs, txhash, stdout,
                 walletCalls, sendCalls, sendResult, trace>>

\* Mutant of CallCreateWallet: the await is missing, so the run goes on to
\* build the message while the wallet is still loading.
CallCreateWallet_noAwait ==
  /\ pc = "createWallet"
  /\ walletCalls' = Append(walletCalls,
       [lcd |-> terra, keyName |-> Get(argv, "key"),
        keyDir |-> Get(argv, "key-dir")])
  /\ pc' = "newMsg"
  /\ trace' = Append(trace, "createWallet.call")
  /\ UNCHANGED <<cmdline, argv, terra, worker, msgs, txhash, stdout, lcdCalls,
                 sendCalls, sendResult, thrown>>

\* createWallet(terra, argv["key"], argv["key-dir"]) is called and awaited.
CallCreateWallet ==
  /\ pc = "createWallet"
  /\ walletCalls' = Append(walletCalls,
       [lcd |-> terra, keyName |-> Get(argv, "key"),
        keyDir |-> Get(argv, "key-dir")])
  /\ pc' = "awaitCreateWallet"
  /\ trace' = Append(trace, "createWallet.call")
  /\ UNCHANGED <<cmdline, argv, terra, worker, msgs, txhash, stdout, lcdCalls,
                 sendCalls, sendResult, thrown>>

\* The awaited createWallet promise resolves: const worker = <the wallet>.
CreateWalletResolve ==
  /\ pc = "awaitCreateWallet"
  /\ \E w \in createWalletResults(terra, Get(argv, "key"),
                                  Get(argv, "key-dir")) :
       worker' = w
  /\ pc' = "newMsg"
  /\ trace' = Append(trace, "createWallet.return")
  /\ UNCHANGED <<cmdline, argv, terra, msgs, txhash, stdout, lcdCalls,
                 walletCalls, sendCalls, sendResult, thrown>>

\* The awaited createWallet promise rejects (or the call throws): the await
\* rethrows, nothing catches it.
CreateWalletReject ==
  /\ pc = "awaitCreateWallet"
  /\ thrown' = "createWallet"
  /\ pc' = "unhandledRejection"
  /\ UNCHANGED <<cmdline, argv, terra, worker, msgs, txhash, stdout, lcdCalls,
                 walletCalls, sendCalls, sendResult, trace>>

\* Mutant of ExecuteMsg: the hub address is put where the validator belongs.
ExecuteMsg_hub(a) ==
  [add_validator |-> [validator |-> Get(a, "hub-address")]]

\* The payload <ExecuteMsg>{ add_validator: { validator: ... } }.
ExecuteMsg(a) ==
  [add_validator |-> [validator |-> Get(a, "validator-address")]]

\* Mutant of MsgExecuteContract: sender and contract are swapped.
MsgExecuteContract_swapped(sender, contract, execute_msg) ==
  [sender |-> contract, contract |-> sender, execute_msg |-> execute_msg,
   coins |-> <<>>]

\* new MsgExecuteContract(sender, contract, execute_msg): no coins argument
\* is given, so the message carries none.
MsgExecuteContract(sender, contract, execute_msg) ==
  [sender |-> sender, contract |-> contract, execute_msg |-> execute_msg,
   coins |-> <<>>]

\* Mutant of MsgList: the message is put in the list twice.
MsgList_twice(w, a) ==
  <<[sender |-> w.key.accAddress, contract |-> Get(a, "hub-address"),
     execute_msg |->
       [add_validator |-> [validator |-> Get(a, "validator-address")]],
     coins |-> <<>>],
    [sender |-> w.key.accAddress, contract |-> Get(a, "hub-address"),
     execute_msg |->
       [add_validator |-> [validator |-> Get(a, "validator-address")]],
     coins |-> <<>>]>>

\* The array literal given to sendTxWithConfirm.
MsgList(w, a) ==
  <<MsgExecuteContract(w.key.accAddress, Get(a, "hub-address"),
                       ExecuteMsg(a))>>

\* The argument list of sendTxWithConfirm is evaluated: one
\* MsgExecuteContract is constructed.
NewMsg ==
  /\ pc = "newMsg"
  /\ msgs' = MsgList(worker, argv)
  /\ pc' = "sendTxWithConfirm"
  /\ trace' = Append(trace, "new MsgExecuteContract")
  /\ UNCHANGED <<cmdline, argv, terra, worker, txhash, stdout, lcdCalls,
                 walletCalls, sendCalls, sendResult, thrown>>

\* Mutant of CallSendTx: the await is missing, so the run goes on to print
\* before the submission has returned.
CallSendTx_noAwait ==
  /\ pc = "sendTxWithConfirm"
  /\ sendCalls' = Append(sendCalls, [signer |-> worker, msgs |-> msgs])
  /\ pc' = "console.log"
  /\ trace' = Append(trace, "sendTxWithConfirm.call")
  /\ UNCHANGED <<cmdline, argv, terra, worker, msgs, txhash, stdout, lcdCalls,
                 walletCalls, sendResult, thrown>>

\* sendTxWithConfirm(worker, [msg]) is called and awaited.
CallSendTx ==
  /\ pc = "sendTxWithConfirm"
  /\ sendCalls' = Append(sendCalls, [signer |-> worker, msgs |-> msgs])
  /\ pc' = "awaitSendTx"
  /\ trace' = Append(trace, "sendTxWithConfirm.call")
  /\ UNCHANGED <<cmdline, argv, terra, worker, msgs, txhash, stdout, lcdCalls,
                 walletCalls, sendResult, thrown>>

\* Mutant of SendTxResolve: the result is taken but the run waits on the
\* submission again instead of going on.
SendTxResolve_waitAgain ==
  /\ pc = "awaitSendTx"
  /\ \E r \in {[txhash |-> h] : h \in Str} :
       /\ sendResult' = r
       /\ txhash' = r.txhash
  /\ pc' = "awaitSendTx"
  /\ UNCHANGED <<cmdline, argv, terra, worker, msgs, stdout, lcdCalls,
                 walletCalls, sendCalls, thrown, trace>>

\* The awaited sendTxWithConfirm promise resolves: const { txhash } = result.
SendTxResolve ==
  /\ pc = "awaitSendTx"
  /\ \E r \in sendTxWithConfirmResults(worker, msgs) :
       /\ sendResult' = r
       /\ txhash' = r.txhash
  /\ pc' = "console.log"
  /\ trace' = Append(trace, "sendTxWithConfirm.return")
  /\ UNCHANGED <<cmdline, argv, terra, worker, msgs, stdout, lcdCalls,
                 walletCalls, sendCalls, thrown>>

\* Mutant of SendTxReject: the rejection is caught and the run goes on to
\* print.
SendTxReject_caught ==
  /\ pc = "awaitSendTx"
  /\ thrown' = "sendTxWithConfirm"
  /\ pc' = "console.log"
  /\ UNCHANGED <<cmdline, argv, terra, worker, msgs, txhash, stdout, lcdCalls,
                 walletCalls, sendCalls, sendResult, trace>>

\* Mutant of SendTxReject: the rejection is caught and the submission is
\* tried again.
SendTxReject_retry ==
  /\ pc = "awaitSendTx"
  /\ thrown' = "sendTxWithConfirm"
  /\ pc' = "sendTxWithConfirm"
  /\ UNCHANGED <<cmdline, argv, terra, worker, msgs, txhash, stdout, lcdCalls,
                 walletCalls, sendCalls, sendResult, trace>>

\* The awaited sendTxWithConfirm promise rejects: the await rethrows, nothing
\* catches it.
SendTxReject ==
  /\ pc = "awaitSendTx"
  /\ thrown' = "sendTxWithConfirm"
  /\ pc' = "unhandledRejection"
  /\ UNCHANGED <<cmdline, argv, terra, worker, msgs, txhash, stdout, lcdCalls,
                 walletCalls, sendCalls, sendResult, trace>>

\* The template literal `Success! Txhash: ${txhash}`.
SuccessLine(h) == "Success! Txhash: " \o h

\* console.log(`Success! Txhash: ${txhash}`); the async function returns.
ConsoleLog ==
  /\ pc = "console.log"
  /\ stdout' = Append(stdout, SuccessLine(txhash))
  /\ pc' = "done"
  /\ trace' = Append(trace, "console.log")
  /\ UNCHANGED <<cmdline, argv, terra, worker, msgs, txhash, lcdCalls,
                 walletCalls, sendCalls, sendResult, thrown>>

Next ==
  \/ ParseArgs
  \/ ParseFail
  \/ CreateLCDClient
  \/ CreateLCDClientThrow
  \/ CallCreateWallet
  \/ CreateWalletResolve
  \/ CreateWalletReject
  \/ NewMsg
  \/ CallSendTx
  \/ SendTxResolve
  \/ SendTxReject
  \/ ConsoleLog

Spec == Init /\ [][Next]_vars

\* The run under the proviso that every step that can be taken eventually is:
\* the script's own steps always run, and each awaited call eventually
\* resolves or rejects.
FairSpec == Spec /\ WF_vars(Next)

----------------------------------------------------------------------------
(* Properties *)

\* The run has ended: the async function returned, its promise was rejected
\* with nobody handling it, or yargs exited the process.
RunEnded == pc \in {"done", "unhandledRejection", "exit"}

\* C1: every message the script constructs or submits carries exactly the
\* payload { add_validator: { validator: V } } with V the --validator-address
\* value unchanged: one top-level key add_validator, whose value has the one
\* key validator; the --hub-address value is not put into the payload.
C1_PayloadIsAddValidator ==
  LET V == Get(cmdline, "validator-address")
      H == Get(cmdline, "hub-address")
      Built == {msgs[j] : j \in 1..Len(msgs)}
      Sent == UNION {{sendCalls[i].msgs[j] : j \in 1..Len(sendCalls[i].msgs)} :
                       i \in 1..Len(sendCalls)}
  IN \A m \in Built \cup Sent :
       /\ DOMAIN m.execute_msg = {"add_validator"}
       /\ DOMAIN m.execute_msg.add_validator = {"validator"}
       /\ m.execute_msg.add_validator.validator = V
       /\ (H # V => m.execute_msg.add_validator.validator # H)

\* A message has been submitted in a run whose hub and validator addresses
\* differ.
C1_Witness ==
  /\ Len(sendCalls) = 1
  /\ Len(sendCalls[1].msgs) >= 1
  /\ cmdline["hub-address"] # cmdline["validator-address"]
  /\ pc = "awaitSendTx"

\* C2: there is never more than one submission call and every submission
\* call carries a message list of length 1; a run in which the wallet loaded
\* has, when it ends, made exactly one submission call with the one message
\* it constructed.
C2_OneMessageOneSubmission ==
  /\ Len(sendCalls) <= 1
  /\ \A i \in 1..Len(sendCalls) : Len(sendCalls[i].msgs) = 1
  /\ Len(msgs) <= 1
  /\ (worker # NoWallet /\ RunEnded) =>
       /\ Len(sendCalls) = 1
       /\ Len(msgs) = 1
       /\ sendCalls[1].msgs = msgs

\* A run with the wallet loaded has ended after its one submission.
C2_Witness ==
  /\ worker # NoWallet
  /\ RunEnded
  /\ Len(sendCalls) = 1
  /\ Len(sendCalls[1].msgs) = 1
  /\ "key-dir" \in DOMAIN cmdline

\* C3: at most one line is ever printed; a printed line exists only once
\* the submission call has returned, and it is "Success! Txhash: " followed
\* by the hash that call returned; a run that ran to its end printed exactly
\* that line.
C3_SuccessLineAfterSubmission ==
  /\ Len(stdout) <= 1
  /\ stdout # <<>> =>
       /\ sendResult # NoResult
       /\ sendResult.txhash \in Str
       /\ stdout[1] = "Success! Txhash: " \o sendResult.txhash
  /\ pc = "done" => Len(stdout) = 1

\* The success line has been printed with the returned hash "s2".
C3_Witness ==
  /\ pc = "done"
  /\ sendResult.txhash = "s2"
  /\ stdout = <<"Success! Txhash: s2">>

\* C4: once wallet loading or submission has failed, the run is at its top
\* level with an unhandled rejection and can take no further step, nothing
\* has been printed, and after a wallet-loading failure no submission call
\* has been made.
C4_FailurePropagates ==
  /\ thrown \in {"createWallet", "sendTxWithConfirm"} =>
       /\ pc = "unhandledRejection"
       /\ stdout = <<>>
       /\ ~ENABLED Next
  /\ thrown = "createWallet" => sendCalls = <<>>

\* The submission has failed.
C4_Witness ==
  /\ thrown = "sendTxWithConfirm"
  /\ pc = "unhandledRejection"
  /\ Len(sendCalls) = 1
  /\ "key-dir" \notin DOMAIN cmdline

\* The flags the interface documents as required.
RequiredFlags == {"network", "key", "hub-address", "validator-address"}

\* C5: when any of --network, --key, --hub-address, --validator-address is
\* absent, the run never gets past argument parsing: no LCD client is
\* created, no wallet loaded, nothing submitted, and parsing ends the run as
\* a failure; when all four are present parsing does not fail, whether or not
\* --key-dir is given.
C5_RequiredFlags ==
  /\ (RequiredFlags \ DOMAIN cmdline # {}) =>
       /\ pc \in {"parseSync", "exit"}
       /\ argv = EmptyObject
       /\ lcdCalls = <<>>
       /\ walletCalls = <<>>
       /\ sendCalls = <<>>
       /\ ~ENABLED ParseArgs
  /\ (RequiredFlags \subseteq DOMAIN cmdline) =>
       /\ pc # "exit"
       /\ thrown # "parseSync"
       /\ ~ENABLED ParseFail

\* Parsing has failed on a command line that lacks only --hub-address.
C5_Witness ==
  /\ DOMAIN cmdline = Flags \ {"hub-address"}
  /\ pc = "exit"
  /\ thrown = "parseSync"

\* C6: every createWallet call is given, as key directory, the --key-dir
\* value when the flag is supplied and keystore.DEFAULT_KEY_DIR when it is
\* not, and as key name the --key value unchanged.
C6_KeyDirDefault ==
  \A i \in 1..Len(walletCalls) :
    /\ walletCalls[i].keyDir =
         IF "key-dir" \in DOMAIN cmdline
           THEN cmdline["key-dir"] ELSE DEFAULT_KEY_DIR
    /\ walletCalls[i].keyName = cmdline["key"]

\* The wallet is being loaded in a run started without --key-dir.
C6_Witness ==
  /\ Len(walletCalls) = 1
  /\ "key-dir" \notin DOMAIN cmdline
  /\ walletCalls[1].keyDir = DEFAULT_KEY_DIR
  /\ pc = "awaitCreateWallet"

\* C7: no step ever makes a second submission call or a second wallet load,
\* and once a call has failed no step changes anything any more: no retry, no
\* further wallet load, no compensating action.
C7_NoRetry ==
  [][/\ Len(sendCalls') <= 1
     /\ Len(walletCalls') <= 1
     /\ Len(lcdCalls') <= 1
     /\ (thrown # "none" => UNCHANGED vars)]_vars

\* The one submission of the run has failed, in a run given --key-dir.
C7_Witness ==
  /\ thrown = "sendTxWithConfirm"
  /\ Len(sendCalls) = 1
  /\ Len(walletCalls) = 1
  /\ "key-dir" \in DOMAIN cmdline

\* The steps of a run that succeeds, in order.
StepOrder ==
  <<"parseSync", "createLCDClient", "createWallet.call",
    "createWallet.return", "new MsgExecuteContract",
    "sendTxWithConfirm.call", "sendTxWithConfirm.return", "console.log">>

\* C8: the steps completed so far are always an initial part of: parse,
\* create client, call createWallet, createWallet returns, construct the
\* message, call sendTxWithConfirm, sendTxWithConfirm returns, print; a
\* message exists only once the wallet has been loaded and a line is printed
\* only once the submission has returned.
C8_StepsInOrder ==
  /\ Len(trace) <= Len(StepOrder)
  /\ trace = SubSeq(StepOrder, 1, Len(trace))
  /\ msgs # <<>> => worker # NoWallet
  /\ sendCalls # <<>> => msgs # <<>>
  /\ stdout # <<>> => sendResult # NoResult

\* A run has completed all its steps.
C8_Witness ==
  /\ pc = "done"
  /\ trace = StepOrder

\* C9: every submitted message has as sender the account address of the
\* signing wallet, which is the wallet createWallet returned for the --key
\* value, as contract the --hub-address value unchanged, and no coins; every
\* createLCDClient call is given the --network value unchanged.
C9_SenderContractCoins ==
  /\ \A i \in 1..Len(sendCalls) :
       /\ sendCalls[i].signer = worker
       /\ worker.key.accAddress \in Str
       /\ Len(walletCalls) = 1
       /\ walletCalls[1].keyName = cmdline["key"]
       /\ \A j \in 1..Len(sendCalls[i].msgs) :
            /\ sendCalls[i].msgs[j].sender = sendCalls[i].signer.key.accAddress
            /\ sendCalls[i].msgs[j].contract = cmdline["hub-address"]
            /\ sendCalls[i].msgs[j].coins = <<>>
  /\ \A i \in 1..Len(lcdCalls) : lcdCalls[i].network = cmdline["network"]

\* A message has been submitted whose sender differs from the hub address.
C9_Witness ==
  /\ Len(sendCalls) = 1
  /\ Len(sendCalls[1].msgs) = 1
  /\ sendCalls[1].msgs[1].sender # sendCalls[1].msgs[1].contract
  /\ Len(lcdCalls) = 1

\* The run ended with the success line printed and no failure.
Succeeded == pc = "done" /\ Len(stdout) = 1 /\ thrown = "none"

\* The run ended with a failure surfaced and nothing printed.
Failed ==
  pc \in {"unhandledRejection", "exit"} /\ thrown # "none" /\ stdout = <<>>

\* C10: under FairSpec every run eventually ends, and stays, in exactly one
\* of the two outcomes: success line printed and no failure, or failure
\* surfaced and no success line.
C10_Terminates ==
  <>[]((Succeeded \/ Failed) /\ ~(Succeeded /\ Failed) /\ ~ENABLED Next)

\* A run has ended in failure because the LCD client could not be created.
C10_Witness ==
  /\ Failed
  /\ thrown = "createLCDClient"
  /\ ~ENABLED Next

====
